---- MODULE Spec2Model ----
(***************************************************************************)
(* Order lifecycle and assignment engine of the jewelry workshop:          *)
(* the order_table / work_order / master tables (database.py), the facade  *)
(* and builder of models.py and the master panel of main.py.               *)
(***************************************************************************)
EXTENDS Integers, Sequences, FiniteSets, TLC

\* ------------------------------------------------------------------ bounds
MaxMasters == 2        \* rows of the master table
MaxSteps == 5          \* handler invocations in one run

\* --------------------------------------------------------------- constants
Capacity == 3

Statuses == {"new", "assigned", "in_progress", "completed", "cancelled"}

\* the order lifecycle graph of the specification (4.1)
LegalEdges ==
    { <<"new", "in_progress">>, <<"new", "cancelled">>,
      <<"in_progress", "completed">>, <<"in_progress", "cancelled">> }

Terminal == {"completed", "cancelled"}

\* the status arguments given to create_advanced_order ('new' is its default)
CreateStatuses == {"new", "in_progress"}

VARIABLES
    order_table,    \* order_table rows: id -> [status]
    work_order,     \* work_order rows: id -> [order_id, master_id]
    master,         \* master rows: id -> [current_orders, is_available]
    panel,          \* the Master object held by master_panel_menu (id 0: no session)
    store_rejects,  \* whether execute_query may fail on a write in this run
    senders_raise,  \* whether an adapter's send may raise in this run
    steps,          \* number of handler invocations so far
    last,           \* what the last handler did (arguments, result, calls made)
    outbox,         \* the send_notification calls of the last handler, in order
    client,         \* client rows: id -> [phone_number]
    product,        \* product rows: id -> the (type, material, sample) of the product
    order_item,     \* order_item rows: id -> [order_id]
    builder,        \* the OrderBuilder object a caller holds and calls step by step
    sessions        \* two processes on one database, each inside a load update

vars == <<order_table, work_order, master, panel, store_rejects, senders_raise,
          steps, last, outbox, client, product, order_item, builder, sessions>>

\* ------------------------------------------------------------------ store
Store == [order_table |-> order_table, work_order |-> work_order, master |-> master]

NoPanel == [id |-> 0, current_orders |-> 0, is_available |-> TRUE]

MasterIds(S) == DOMAIN S.master
OrderIds(S) == DOMAIN S.order_table

\* outcomes execute_query can give to a write
WriteOutcomes == IF store_rejects THEN BOOLEAN ELSE {TRUE}

\* update_availability with the comparison off by one (<= for <)
update_availability_inclusive(m) ==
    [m EXCEPT !.is_available = (m.current_orders <= Capacity)]

\* Master.update_availability, the in-memory part
update_availability(m) == [m EXCEPT !.is_available = (m.current_orders < Capacity)]

\* Master.save of an object with an id (UPDATE master ... WHERE id)
Master_save(S, id, m, ok) ==
    IF ok THEN [S EXCEPT !.master[id] =
                   [current_orders |-> m.current_orders, is_available |-> m.is_available]]
    ELSE S

\* Order.save that removes the row, and the rows after it, when the status
\* written is completed or cancelled
Order_save_purging(S, id, status, ok) ==
    IF ~ok THEN S
    ELSE IF status \in {"completed", "cancelled"}
         THEN [S EXCEPT !.order_table = SubSeq(@, 1, id - 1)]
         ELSE [S EXCEPT !.order_table[id] = [status |-> status]]

\* Order.save of an object with an id (UPDATE order_table ... WHERE id)
Order_save(S, id, status, ok) ==
    IF ok THEN [S EXCEPT !.order_table[id] = [status |-> status]] ELSE S

\* Order.save of an object without id (INSERT ... RETURNING id)
Order_insert(S, status, ok) ==
    IF ok THEN [S EXCEPT !.order_table = Append(@, [status |-> status])] ELSE S

\* WorkOrder.save of an object without id (INSERT ... RETURNING id);
\* order_id 0 stands for NULL
WorkOrder_insert(S, order_id, master_id, ok) ==
    IF ok THEN [S EXCEPT !.work_order =
                   Append(@, [order_id |-> order_id, master_id |-> master_id])]
    ELSE S

\* all orderings of a finite set
Orderings(T) ==
    { f \in [1..Cardinality(T) -> T] : \A i, j \in 1..Cardinality(T) : f[i] = f[j] => i = j }

\* get_available_masters without the ORDER BY current_orders
get_available_masters_unordered(S) ==
    Orderings({ m \in MasterIds(S) : S.master[m].is_available })

\* Master.get_available_masters:
\*   SELECT * FROM master WHERE is_available = TRUE ORDER BY current_orders
\* the result lists the query may return (rows of equal load come in any order)
get_available_masters(S) ==
    LET avail == { m \in MasterIds(S) : S.master[m].is_available }
    IN { l \in Orderings(avail) :
           \A i, j \in 1..Cardinality(avail) :
               i < j => S.master[l[i]].current_orders <= S.master[l[j]].current_orders }

\* get_by_order_id without its WHERE clause: any row of the table
WorkOrder_get_any(S, order_id) ==
    { w \in DOMAIN S.work_order : order_id \in DOMAIN S.order_table }

\* WorkOrder.get_by_order_id: SELECT * FROM work_order WHERE order_id = %s, result[0];
\* the rows the query may return first (no ORDER BY), {} when there is none
WorkOrder_get_by_order_id(S, order_id) ==
    { w \in DOMAIN S.work_order : S.work_order[w].order_id = order_id }

\* ascending sequence of the elements of a finite set of integers
RECURSIVE SortedSeq(_)
SortedSeq(T) ==
    IF T = {} THEN <<>>
    ELSE LET lo == CHOOSE x \in T : \A y \in T : x <= y
         IN <<lo>> \o SortedSeq(T \ {lo})

\* Order.get_by_status: SELECT * FROM order_table WHERE status = %s ORDER BY id
Order_get_by_status(S, status) ==
    SortedSeq({ o \in OrderIds(S) : S.order_table[o].status = status })


\* ------------------------------------------------------------ notifications
\* NotificationService.send_master_assigned_notification: one dispatch to the
\* client and one to the master
MasterAssignedNotes == <<"master_assigned", "master_assigned">>
\* NotificationService.send_order_ready_notification
OrderReadyNotes == <<"order_ready">>

\* NotificationService.adapters: the supported channels
Adapters == {"email", "sms", "telegram"}

\* NotificationService.notification_rules
notification_rules ==
    [order_created |-> <<"email", "sms">>,
     order_ready |-> <<"sms", "telegram">>,
     master_assigned |-> <<"email">>,
     status_changed |-> <<"email", "sms">>,
     urgent |-> <<"sms", "telegram">>]

\* the sets of adapters whose send may raise during one handler
SendOutcomes == IF senders_raise THEN SUBSET Adapters ELSE { {} }

\* the channel loop of send_notification that gives up at the first exception
RECURSIVE Deliver_until_error(_, _)
Deliver_until_error(channels, raising) ==
    IF channels = <<>> THEN <<>>
    ELSE LET channel == Head(channels)
         IN IF channel \notin Adapters THEN Deliver_until_error(Tail(channels), raising)
            ELSE IF channel \in raising
                 THEN << [service |-> channel, status |-> "error"] >>
                 ELSE << [service |-> channel, status |-> "success"] >>
                          \o Deliver_until_error(Tail(channels), raising)

\* the channel loop of send_notification: the results list it builds, with one
\* entry per listed channel that has an adapter ('error' when its send raised)
RECURSIVE Deliver(_, _)
Deliver(channels, raising) ==
    IF channels = <<>> THEN <<>>
    ELSE LET channel == Head(channels)
             rest == Deliver(Tail(channels), raising)
         IN IF channel \in Adapters
            THEN << [service |-> channel,
                     status |-> IF channel \in raising THEN "error" ELSE "success"] >>
                     \o rest
            ELSE rest

\* NotificationService.send_notification(recipient, message, notification_type,
\* channels, subject) about order `order`; given = FALSE stands for channels=None.
\* The record of the call: its type, the channel list it used and its results
send_notification(notification_type, order, given, channels, raising) ==
    LET used == IF given THEN channels
                ELSE IF notification_type \in DOMAIN notification_rules
                     THEN notification_rules[notification_type]
                     ELSE << "email" >>
    IN [type |-> notification_type, order |-> order, channels |-> used,
        results |-> Deliver(used, raising)]

\* the send_notification calls behind a list of specialised notifications
\* (send_order_ready_notification, send_master_assigned_notification)
Dispatch(types, order, raising) ==
    [i \in DOMAIN types |-> send_notification(types[i], order, FALSE, <<>>, raising)]

\* the send_notification calls made by a sequence of assign_order_to_master calls
RECURSIVE DispatchCalls(_, _)
DispatchCalls(calls, raising) ==
    IF calls = <<>> THEN <<>>
    ELSE Dispatch(Head(calls).sent, Head(calls).order, raising)
             \o DispatchCalls(Tail(calls), raising)

\* ------------------------------------------------------------------ seeding
\* JewelrySystem.add_sample_data: three masters made by the factory and saved,
\* each with current_orders 0 and is_available TRUE
add_sample_data(S) ==
    [S EXCEPT !.master = @ \o [i \in 1..3 |-> [current_orders |-> 0,
                                                is_available |-> TRUE]]]

\* init_database without the test of Master.get_all()
init_database_always(S) == add_sample_data(S)

\* JewelrySystem(): __init__ calls init_database, which creates the tables that
\* do not exist and adds the sample data `if not Master.get_all()`
init_database(S) == IF S.master # <<>> THEN S ELSE add_sample_data(S)

\* --------------------------------------------------------------- scheduler
\* the last row of the list instead of the first
LastOf(l) == l[Len(l)]

\* the first row of the list assign_order_to_master / assign_master take
FirstOf(l) == l[1]

\* assign_order_to_master(order_id): the outcomes of one call made in store S,
\* each with the store it leaves, the master it took and its return value
assign_order_to_master(S, order_id, W) ==
    { IF available_masters = <<>> \/ ~okW
      THEN [order |-> order_id, master |-> 0, ret |-> FALSE,
            pre |-> S, post |-> S, sent |-> <<>>]
      ELSE LET m == FirstOf(available_masters)
               S1 == WorkOrder_insert(S, order_id, m, okW)
               S2 == Order_save(S1, order_id, "assigned", okO)
               obj == update_availability(
                         [S.master[m] EXCEPT !.current_orders = @ + 1])
               S3 == init_database(Master_save(S2, m, obj, okM))
           IN [order |-> order_id, master |-> m, ret |-> TRUE,
               pre |-> S, post |-> S3, sent |-> MasterAssignedNotes]
      : available_masters \in get_available_masters(S),
        okW \in W, okO \in W, okM \in W }

\* the re-queue loop without the break: it goes on after a successful assignment
RECURSIVE Requeue_without_break(_, _, _)
Requeue_without_break(S, pending_orders, W) ==
    IF pending_orders = <<>> THEN { <<>> }
    ELSE UNION { { <<e>> \o rest :
                     rest \in Requeue_without_break(e.post, Tail(pending_orders), W) }
                 : e \in assign_order_to_master(S, Head(pending_orders), W) }

\* the re-queue loop of master_panel_menu:
\*   for pending_order in pending_orders: if assign_order_to_master(..): break
\* the possible sequences of calls, over a list of order ids fixed before the loop
RECURSIVE Requeue(_, _, _)
Requeue(S, pending_orders, W) ==
    IF pending_orders = <<>> THEN { <<>> }
    ELSE UNION { IF e.ret THEN { <<e>> }
                 ELSE { <<e>> \o rest : rest \in Requeue(e.post, Tail(pending_orders), W) }
                 : e \in assign_order_to_master(S, Head(pending_orders), W) }

\* the store a sequence of calls leaves, S when there was none
StoreAfter(S, calls) == IF calls = <<>> THEN S ELSE calls[Len(calls)].post

\* ----------------------------------------------------------------- builder
\* OrderBuilder.assign_master(master_id): the master ids the builder's work order
\* may get; {} when it raises ValueError. master_id 0 stands for None.
assign_master(S, master_id) ==
    IF master_id # 0
    THEN IF master_id \in MasterIds(S) THEN {master_id} ELSE {}
    ELSE { FirstOf(l) : l \in { x \in get_available_masters(S) : x # <<>> } }

\* build without the increment of the master's counter
build_without_increment(S, wo_master, status, okO, okW, okM) ==
    LET S1 == Order_insert(S, status, okO)
        id == IF okO THEN Len(S1.order_table) ELSE 0
    IN IF wo_master = 0 THEN S1
       ELSE LET S2 == WorkOrder_insert(S1, id, wo_master, okW)
            IN Master_save(S2, wo_master, update_availability(S2.master[wo_master]), okM)

\* OrderBuilder.build of a builder whose client and items are set, with
\* wo_master the master of its work order (0: no work order) and status the
\* status put on the order: the store it leaves
build(S, wo_master, status, okO, okW, okM) ==
    LET S1 == Order_insert(S, status, okO)
        id == IF okO THEN Len(S1.order_table) ELSE 0
    IN IF wo_master = 0 THEN S1
       ELSE LET S2 == WorkOrder_insert(S1, id, wo_master, okW)
                obj == update_availability(
                          [S2.master[wo_master] EXCEPT !.current_orders = @ + 1])
            IN Master_save(S2, wo_master, obj, okM)

\* ------------------------------------------------------------------ actions
Commit(S) ==
    /\ order_table' = S.order_table
    /\ work_order' = S.work_order
    /\ master' = S.master

\* one more handler invocation. The facade and panel handlers are followed on
\* the order_table, work_order and master tables; the client, product and
\* order_item rows a builder writes are followed in the builder's own steps
Step ==
    /\ steps < MaxSteps
    /\ steps' = steps + 1
    /\ UNCHANGED <<store_rejects, senders_raise>>
    /\ UNCHANGED <<client, product, order_item, builder, sessions>>

\* the record of a handler: its name, its arguments (order, master, status),
\* whether it asked its builder for a master (assign) and the master the builder
\* took (chosen, 0: none), its result, and for a completion the store after the
\* order_ready notification (mid) and the assign_order_to_master calls made
Did(op, order, m, status, assign, chosen, ret, mid, calls) ==
    [op |-> op, order |-> order, master |-> m, status |-> status, assign |-> assign,
     chosen |-> chosen, ret |-> ret, mid |-> mid, calls |-> calls]

NoStore == [order_table |-> <<>>, work_order |-> <<>>, master |-> <<>>]

\* OrderBuilder.reset: the fields of a fresh builder. client_id, order_id and
\* wo_id are the ids of its Client, Order and WorkOrder objects (0: no id yet),
\* items the ids of its OrderItem objects, wo_master the master of its work
\* order (0: no work order), client_via the call that made its Client object
FreshBuilder ==
    [has_client |-> FALSE, client_id |-> 0, phone_number |-> "", client_via |-> "",
     items |-> <<>>, has_order |-> FALSE, order_id |-> 0, status |-> "new",
     wo_master |-> 0, wo_id |-> 0]

\* two processes that are not inside a load update
NoSessions == [p \in {1, 2} |-> [pc |-> "idle", op |-> "", order |-> 0, id |-> 0,
                                  read |-> 0, current_orders |-> 0,
                                  is_available |-> TRUE]]

\* the tables and objects the facade and panel handlers are not followed on
Aside ==
    /\ client = <<>>
    /\ product = <<>>
    /\ order_item = <<>>
    /\ builder = FreshBuilder
    /\ sessions = NoSessions

Init ==
    /\ order_table = <<>>
    /\ work_order = <<>>
    /\ \E n \in 1..MaxMasters :
           master = [i \in 1..n |-> [current_orders |-> 0, is_available |-> TRUE]]
    /\ panel = NoPanel
    /\ store_rejects = FALSE
    /\ senders_raise = FALSE
    /\ steps = 0
    /\ last = Did("init", 0, 0, "new", FALSE, 0, "ok", NoStore, <<>>)
    /\ outbox = <<>>
    /\ Aside

\* the master ids given to the handlers: None (0), the ids of the stored masters
\* and one id with no row
MasterIdArgs == 0..(Len(master) + 1)

\* the builder part shared by the order-creating handlers
CreateWith(op, master_id, auto, status) ==
    /\ Step
    /\ panel.id = 0
    /\ LET chosen == IF auto THEN assign_master(Store, master_id) ELSE {0}
       IN IF chosen = {}
          THEN /\ last' = Did(op, 0, master_id, status, auto, 0, "none", NoStore, <<>>)
               /\ UNCHANGED <<order_table, work_order, master>>
          ELSE \E m \in chosen, okO \in WriteOutcomes, okW \in WriteOutcomes,
                  okM \in WriteOutcomes :
                 /\ Commit(build(Store, m, status, okO, okW, okM))
                 /\ last' = Did(op, IF okO THEN Len(order_table) + 1 ELSE 0,
                                master_id, status, auto, m, "result", NoStore, <<>>)
    /\ outbox' = <<>>
    /\ UNCHANGED panel

\* OrderManagementFacade.create_advanced_order(client_data, products_data,
\* master_id, status); create_simple_order is the case master_id None, status new
create_advanced_order ==
    \E master_id \in MasterIdArgs, status \in CreateStatuses :
        CreateWith("create_advanced_order", master_id, TRUE, status)

\* JewelrySystem.create_complex_order(client_data, products_data, assign_master,
\* master_id)
create_complex_order ==
    \E flag \in BOOLEAN, master_id \in MasterIdArgs :
        /\ ~flag => master_id = 0
        /\ CreateWith("create_complex_order", master_id, flag, "new")

\* OrderManagementFacade.change_order_status(order_id, new_status)
change_order_status ==
    \E order_id \in 1..(Len(order_table) + 1), new_status \in Statuses,
       ok \in WriteOutcomes :
        /\ Step
        /\ panel.id = 0
        /\ IF order_id \notin OrderIds(Store)
           THEN /\ last' = Did("change_order_status", order_id, 0, new_status, FALSE, 0,
                               "false", NoStore, <<>>)
                /\ UNCHANGED <<order_table, work_order, master>>
           ELSE /\ Commit(Order_save(Store, order_id, new_status, ok))
                /\ last' = Did("change_order_status", order_id, 0, new_status, FALSE, 0,
                               IF ok THEN "true" ELSE "false", NoStore, <<>>)
        /\ outbox' = <<>>
        /\ UNCHANGED panel

\* master_panel_menu: the master enters an id
panel_login ==
    \E master_id \in MasterIdArgs :
        /\ Step
        /\ panel.id = 0
        /\ panel' = IF master_id \in MasterIds(Store)
                    THEN [id |-> master_id,
                          current_orders |-> master[master_id].current_orders,
                          is_available |-> master[master_id].is_available]
                    ELSE NoPanel
        /\ last' = Did("panel_login", 0, master_id, "new", FALSE, 0,
                       IF master_id \in MasterIds(Store) THEN "ok" ELSE "not_found",
                       NoStore, <<>>)
        /\ outbox' = <<>>
        /\ UNCHANGED <<order_table, work_order, master>>

\* master_panel_menu, choice 5
panel_back ==
    /\ Step
    /\ panel.id # 0
    /\ panel' = NoPanel
    /\ last' = Did("panel_back", 0, panel.id, "new", FALSE, 0, "ok", NoStore, <<>>)
    /\ outbox' = <<>>
    /\ UNCHANGED <<order_table, work_order, master>>

\* master_panel_menu, choice 2: the master completes an order
panel_complete ==
    \E order_id \in 1..(Len(order_table) + 1) :
        /\ Step
        /\ panel.id # 0
        /\ LET rows == WorkOrder_get_by_order_id(Store, order_id)
               Refused(ret) ==
                   /\ last' = Did("panel_complete", order_id, panel.id, "completed",
                                  FALSE, 0, ret, NoStore, <<>>)
                   /\ outbox' = <<>>
                   /\ UNCHANGED <<order_table, work_order, master, panel>>
           IN IF rows = {} THEN Refused("not_found")
              ELSE \E w \in rows :
                     IF work_order[w].master_id # panel.id THEN Refused("not_found")
                     ELSE \E okO \in WriteOutcomes, okM \in WriteOutcomes :
                            IF ~okO THEN Refused("error")
                            ELSE LET S1 == Order_save(Store, order_id, "completed", okO)
                                     obj == update_availability(
                                               [panel EXCEPT !.current_orders = @ - 1])
                                     S2 == init_database(
                                               Master_save(S1, panel.id, obj, okM))
                                 IN \E calls \in Requeue(S2, Order_get_by_status(S2, "new"),
                                                         WriteOutcomes),
                                       raising \in SendOutcomes :
                                      /\ Commit(StoreAfter(S2, calls))
                                      /\ panel' = obj
                                      /\ last' = Did("panel_complete", order_id, panel.id,
                                                     "completed", FALSE, 0, "ok", S2, calls)
                                      /\ outbox' = Dispatch(OrderReadyNotes, order_id, raising)
                                                       \o DispatchCalls(calls, raising)

\* the channel lists given to send_custom_notification: those of
\* notification_test_menu, one with a channel that has no adapter and one that
\* names a channel twice
ChannelArgs ==
    { << "email" >>, << "sms" >>, << "telegram" >>, << "email", "sms", "telegram" >>,
      << "telegram", "push", "email" >>, << "sms", "sms" >> }

\* JewelrySystem.send_custom_notification(recipient, message, channels, subject);
\* notification_test_menu calls send_notification the same way
send_custom_notification ==
    \E given \in BOOLEAN, channels \in ChannelArgs, raising \in SendOutcomes :
        /\ Step
        /\ panel.id = 0
        /\ ~given => channels = << "email" >>
        /\ outbox' = << send_notification("info", 0, given, channels, raising) >>
        /\ last' = Did("send_custom_notification", 0, 0, "new", FALSE, 0, "ok",
                       NoStore, <<>>)
        /\ UNCHANGED <<order_table, work_order, master, panel>>

Next ==
    \/ create_advanced_order
    \/ create_complex_order
    \/ change_order_status
    \/ panel_login
    \/ panel_back
    \/ panel_complete
    \/ send_custom_notification

Spec == Init /\ [][Next]_vars

\* the same program over a store whose writes may fail (execute_query catches
\* the exception, rolls back and returns False), in a workshop with one master
InitRejects ==
    /\ order_table = <<>>
    /\ work_order = <<>>
    /\ master = << [current_orders |-> 0, is_available |-> TRUE] >>
    /\ panel = NoPanel
    /\ store_rejects = TRUE
    /\ senders_raise = FALSE
    /\ steps = 0
    /\ last = Did("init", 0, 0, "new", FALSE, 0, "ok", NoStore, <<>>)
    /\ outbox = <<>>
    /\ Aside

SpecRejects == InitRejects /\ [][Next]_vars

\* the same program with notification adapters whose send may raise, in a
\* workshop with one master
InitRaises ==
    /\ order_table = <<>>
    /\ work_order = <<>>
    /\ master = << [current_orders |-> 0, is_available |-> TRUE] >>
    /\ panel = NoPanel
    /\ store_rejects = FALSE
    /\ senders_raise = TRUE
    /\ steps = 0
    /\ last = Did("init", 0, 0, "new", FALSE, 0, "ok", NoStore, <<>>)
    /\ outbox = <<>>
    /\ Aside

SpecRaises == InitRaises /\ [][Next]_vars

\* ----------------------------------------- automatic assignment and completion
\* OrderManagementFacade.create_simple_order: set_client, add_product,
\* assign_master() without a master id, build; the order is created in status new
create_simple_order == CreateWith("create_simple_order", 0, TRUE, "new")

\* a workshop with one master in which k orders (k up to the capacity) were
\* created by create_simple_order: each is in status new with a work_order row
\* for the master, whose load is k
InitAuto ==
    /\ \E k \in 0..Capacity :
           /\ order_table = [o \in 1..k |-> [status |-> "new"]]
           /\ work_order = [w \in 1..k |-> [order_id |-> w, master_id |-> 1]]
           /\ master = << [current_orders |-> k, is_available |-> k < Capacity] >>
    /\ panel = NoPanel
    /\ store_rejects = FALSE
    /\ senders_raise = FALSE
    /\ steps = 0
    /\ last = Did("init", 0, 0, "new", FALSE, 0, "ok", NoStore, <<>>)
    /\ outbox = <<>>
    /\ Aside

\* the handlers that assign automatically or complete
NextAuto ==
    \/ create_simple_order
    \/ panel_login
    \/ panel_back
    \/ panel_complete

SpecAuto == InitAuto /\ [][NextAuto]_vars

\* ------------------------------------------------------ starts of the program
\* main(): system = JewelrySystem(), then the menu loop. A start of the program
\* on the database the earlier runs left; no master panel is open.
main ==
    /\ Step
    /\ Commit(init_database(Store))
    /\ panel' = NoPanel
    /\ last' = Did("main", 0, 0, "new", FALSE, 0, "ok", NoStore, <<>>)
    /\ outbox' = <<>>

\* check_order_status_menu: Order.get_by_id, and for an order that exists
\* system = JewelrySystem() and the summary of the facade, which only reads
check_order_status_menu ==
    \E order_id \in 1..(Len(order_table) + 1) :
        /\ Step
        /\ panel.id = 0
        /\ IF order_id \in OrderIds(Store)
           THEN /\ Commit(init_database(Store))
                /\ last' = Did("check_order_status_menu", order_id, 0, "new", FALSE, 0,
                               "ok", NoStore, <<>>)
           ELSE /\ UNCHANGED <<order_table, work_order, master>>
                /\ last' = Did("check_order_status_menu", order_id, 0, "new", FALSE, 0,
                               "not_found", NoStore, <<>>)
        /\ outbox' = <<>>
        /\ UNCHANGED panel

\* a database in which no table has a row: the program was never started
InitSeed ==
    /\ order_table = <<>>
    /\ work_order = <<>>
    /\ master = <<>>
    /\ panel = NoPanel
    /\ store_rejects = FALSE
    /\ senders_raise = FALSE
    /\ steps = 0
    /\ last = Did("init", 0, 0, "new", FALSE, 0, "ok", NoStore, <<>>)
    /\ outbox = <<>>
    /\ Aside

\* the menu is reached only through main
Started == last.op # "init"

NextSeed ==
    \/ main
    \/ Started /\ check_order_status_menu
    \/ Started /\ create_simple_order
    \/ Started /\ panel_login
    \/ Started /\ panel_back
    \/ Started /\ panel_complete

SpecSeed == InitSeed /\ [][NextSeed]_vars

\* ------------------------------------------------------- builder, step by step
MaxItems == 2          \* order items of one builder

\* the phone numbers given to set_client
Phones == {"+79160000001", "+79160000002"}

\* the (type, material, sample) given to add_product
ProductArgs == {"ring"}

\* one more call on the builder
Turn ==
    /\ steps < MaxSteps
    /\ steps' = steps + 1
    /\ outbox' = <<>>
    /\ UNCHANGED <<panel, store_rejects, senders_raise, sessions>>

\* the tables a builder method does not write
Untouched == UNCHANGED <<order_table, work_order, master, client, order_item>>

\* OrderBuilder.build without the check of the order items
build_allowed_without_items(b) ==
    IF ~b.has_client THEN "ValueError: no client" ELSE "ok"

\* the checks OrderBuilder.build makes before it writes
build_allowed(b) ==
    IF ~b.has_client THEN "ValueError: no client"
    ELSE IF b.items = <<>> THEN "ValueError: no items"
    ELSE "ok"

\* Client.get_by_phone without the WHERE clause on the phone number: no row
Client_get_by_phone_blind(rows, phone_number) == {}

\* Client.get_by_phone: the rows the query may return first, {} when none
Client_get_by_phone(rows, phone_number) ==
    { c \in DOMAIN rows : rows[c].phone_number = phone_number }

\* OrderBuilder.reset
OrderBuilder_reset ==
    /\ Turn
    /\ builder' = FreshBuilder
    /\ last' = Did("OrderBuilder.reset", 0, 0, "new", FALSE, 0, "ok", NoStore, <<>>)
    /\ Untouched
    /\ UNCHANGED product

\* OrderBuilder.set_client(name, surname, phone_number, email)
OrderBuilder_set_client ==
    \E phone_number \in Phones :
        /\ Turn
        /\ builder' = [builder EXCEPT !.has_client = TRUE, !.client_id = 0,
                                      !.phone_number = phone_number,
                                      !.client_via = "set_client"]
        /\ last' = Did("OrderBuilder.set_client", 0, 0, "new", FALSE, 0, "ok",
                       NoStore, <<>>)
        /\ Untouched
        /\ UNCHANGED product

\* OrderBuilder.set_existing_client(client_id)
OrderBuilder_set_existing_client ==
    \E client_id \in 1..(Len(client) + 1) :
        /\ Turn
        /\ IF client_id \in DOMAIN client
           THEN /\ builder' = [builder EXCEPT !.has_client = TRUE,
                                              !.client_id = client_id,
                                              !.phone_number = client[client_id].phone_number,
                                              !.client_via = "get_by_id"]
                /\ last' = Did("OrderBuilder.set_existing_client", 0, 0, "new", FALSE,
                               0, "ok", NoStore, <<>>)
           ELSE /\ builder' = [builder EXCEPT !.has_client = FALSE, !.client_id = 0,
                                              !.phone_number = "", !.client_via = ""]
                /\ last' = Did("OrderBuilder.set_existing_client", 0, 0, "new", FALSE,
                               0, "ValueError: client not found", NoStore, <<>>)
        /\ Untouched
        /\ UNCHANGED product

\* OrderBuilder.add_product(product_type, material, sample, inform): the product
\* is looked up by its parameters and saved when there is none
OrderBuilder_add_product ==
    \E params \in ProductArgs :
        /\ Turn
        /\ Len(builder.items) < MaxItems
        /\ product' = IF \E i \in DOMAIN product : product[i] = params
                      THEN product ELSE Append(product, params)
        /\ builder' = [builder EXCEPT !.items = Append(@, 0)]
        /\ last' = Did("OrderBuilder.add_product", 0, 0, "new", FALSE, 0, "ok",
                       NoStore, <<>>)
        /\ Untouched

\* OrderBuilder.add_existing_product(product_id, inform)
OrderBuilder_add_existing_product ==
    \E product_id \in 1..(Len(product) + 1) :
        /\ Turn
        /\ Len(builder.items) < MaxItems
        /\ IF product_id \in DOMAIN product
           THEN /\ builder' = [builder EXCEPT !.items = Append(@, 0)]
                /\ last' = Did("OrderBuilder.add_existing_product", 0, 0, "new", FALSE,
                               0, "ok", NoStore, <<>>)
           ELSE /\ builder' = builder
                /\ last' = Did("OrderBuilder.add_existing_product", 0, 0, "new", FALSE,
                               0, "ValueError: product not found", NoStore, <<>>)
        /\ Untouched
        /\ UNCHANGED product

\* OrderBuilder.assign_master(master_id)
OrderBuilder_assign_master ==
    \E master_id \in MasterIdArgs :
        /\ Turn
        /\ IF assign_master(Store, master_id) = {}
           THEN /\ builder' = builder
                /\ last' = Did("OrderBuilder.assign_master", 0, master_id, "new", TRUE, 0,
                               IF master_id # 0 THEN "ValueError: master not found"
                               ELSE "ValueError: no available master", NoStore, <<>>)
           ELSE \E m \in assign_master(Store, master_id) :
                  /\ builder' = [builder EXCEPT !.wo_master = m, !.wo_id = 0]
                  /\ last' = Did("OrderBuilder.assign_master", 0, master_id, "new", TRUE,
                                 m, "ok", NoStore, <<>>)
        /\ Untouched
        /\ UNCHANGED product

\* OrderBuilder.set_status(status)
OrderBuilder_set_status ==
    \E status \in CreateStatuses :
        /\ Turn
        /\ builder' = [builder EXCEPT !.has_order = TRUE, !.status = status]
        /\ last' = Did("OrderBuilder.set_status", 0, 0, status, FALSE, 0, "ok",
                       NoStore, <<>>)
        /\ Untouched
        /\ UNCHANGED product

\* OrderBuilder.build of an order that has an id already: the saves are UPDATEs
\* of the rows it wrote before, the increment of the master is made again
build_saved(S, order_id, wo_master, status) ==
    LET S1 == Order_save(S, order_id, status, TRUE)
    IN IF wo_master = 0 THEN S1
       ELSE LET obj == update_availability(
                          [S1.master[wo_master] EXCEPT !.current_orders = @ + 1])
            IN Master_save(S1, wo_master, obj, TRUE)

\* OrderBuilder.build, over a store that accepts every write
OrderBuilder_build ==
    /\ Turn
    /\ UNCHANGED product
    /\ IF build_allowed(builder) # "ok"
       THEN /\ last' = Did("OrderBuilder.build", 0, 0, builder.status, FALSE, 0,
                           build_allowed(builder), NoStore, <<>>)
            /\ builder' = builder
            /\ Untouched
       ELSE \E found \in IF builder.client_id # 0 THEN { builder.client_id }
                          ELSE IF Client_get_by_phone(client, builder.phone_number) # {}
                               THEN Client_get_by_phone(client, builder.phone_number)
                               ELSE { 0 } :
              LET client_id == IF found # 0 THEN found ELSE Len(client) + 1
                  order_id == IF builder.order_id # 0 THEN builder.order_id
                              ELSE Len(order_table) + 1
                  unsaved == { i \in DOMAIN builder.items : builder.items[i] = 0 }
                  item_ids == [i \in DOMAIN builder.items |->
                                  IF builder.items[i] # 0 THEN builder.items[i]
                                  ELSE Len(order_item)
                                       + Cardinality({ j \in unsaved : j <= i })]
                  wo_new == builder.wo_master # 0 /\ builder.wo_id = 0
                  S == IF builder.order_id = 0
                       THEN build(Store, IF wo_new THEN builder.wo_master ELSE 0,
                                  builder.status, TRUE, TRUE, TRUE)
                       ELSE build_saved(
                                IF wo_new
                                THEN WorkOrder_insert(Store, order_id, builder.wo_master, TRUE)
                                ELSE Store,
                                order_id, builder.wo_master, builder.status)
              IN /\ client' = IF found # 0 THEN client
                              ELSE Append(client, [phone_number |-> builder.phone_number])
                 /\ Commit(S)
                 /\ order_item' = [i \in 1..(Len(order_item) + Cardinality(unsaved)) |->
                                      IF i <= Len(order_item)
                                      THEN IF \E k \in DOMAIN builder.items :
                                                  builder.items[k] = i
                                           THEN [order_id |-> order_id]
                                           ELSE order_item[i]
                                      ELSE [order_id |-> order_id]]
                 /\ builder' = [builder EXCEPT
                                   !.client_id = client_id,
                                   !.client_via = IF builder.client_id = 0 /\ found # 0
                                                  THEN "get_by_phone" ELSE @,
                                   !.has_order = TRUE,
                                   !.order_id = order_id,
                                   !.items = item_ids,
                                   !.wo_id = IF builder.wo_master = 0 THEN 0
                                             ELSE IF wo_new THEN Len(work_order) + 1
                                             ELSE @]
                 /\ last' = Did("OrderBuilder.build", order_id, 0, builder.status, FALSE,
                                builder.wo_master, "result", NoStore, <<>>)

\* a caller with one builder object, in a workshop with one master and at most
\* one client registered before (main.py registers clients on its own)
InitBuilder ==
    /\ order_table = <<>>
    /\ work_order = <<>>
    /\ master = << [current_orders |-> 0, is_available |-> TRUE] >>
    /\ panel = NoPanel
    /\ store_rejects = FALSE
    /\ senders_raise = FALSE
    /\ steps = 0
    /\ last = Did("init", 0, 0, "new", FALSE, 0, "ok", NoStore, <<>>)
    /\ outbox = <<>>
    /\ \E rows \in { <<>>, << [phone_number |-> "+79160000001"] >> } : client = rows
    /\ product = <<>>
    /\ order_item = <<>>
    /\ builder = FreshBuilder
    /\ sessions = NoSessions

NextBuilder ==
    \/ OrderBuilder_reset
    \/ OrderBuilder_set_client
    \/ OrderBuilder_set_existing_client
    \/ OrderBuilder_add_product
    \/ OrderBuilder_add_existing_product
    \/ OrderBuilder_assign_master
    \/ OrderBuilder_set_status
    \/ OrderBuilder_build

SpecBuilder == InitBuilder /\ [][NextBuilder]_vars

\* ------------------------------------------------- two processes, one database
\* Two programs run on the same database. Each is inside one operation that
\* updates the load of a master: assign_order_to_master ("assign") or the
\* completion of the master panel ("complete"), followed up to the write of the
\* master row in three steps: the Master object is loaded, the operation writes
\* its other rows and changes the object, the object is saved.
Procs == {1, 2}

\* what is outside the two operations
Backstage == UNCHANGED <<panel, store_rejects, senders_raise, steps, last, outbox,
                         client, product, order_item, builder>>

\* Master.save as an update relative to the stored row
\* (SET current_orders = current_orders + the change made to the object)
save_loaded_relative(S, s) ==
    LET load == S.master[s.id].current_orders + (s.current_orders - s.read)
    IN Master_save(S, s.id, [current_orders |-> load, is_available |-> load < Capacity],
                   TRUE)

\* Master.save of the object a process loaded: every column is written from the
\* object (UPDATE master SET ..., is_available = %s, current_orders = %s WHERE id)
save_loaded(S, s) ==
    Master_save(S, s.id, [current_orders |-> s.current_orders,
                          is_available |-> s.is_available], TRUE)

\* the Master object is loaded: available_masters[0] of assign_order_to_master,
\* Master.get_by_id of master_panel_menu
load_entity(p) ==
    /\ sessions[p].pc = "idle"
    /\ IF sessions[p].op = "assign"
       THEN \E available_masters \in get_available_masters(Store) :
              IF available_masters = <<>>
              THEN sessions' = [sessions EXCEPT ![p].pc = "returned"]
              ELSE LET m == FirstOf(available_masters)
                   IN sessions' = [sessions EXCEPT
                                      ![p].pc = "loaded", ![p].id = m,
                                      ![p].read = master[m].current_orders,
                                      ![p].current_orders = master[m].current_orders,
                                      ![p].is_available = master[m].is_available]
       ELSE sessions' = [sessions EXCEPT
                            ![p].pc = "loaded",
                            ![p].read = master[sessions[p].id].current_orders,
                            ![p].current_orders = master[sessions[p].id].current_orders,
                            ![p].is_available = master[sessions[p].id].is_available]
    /\ UNCHANGED <<order_table, work_order, master>>
    /\ Backstage

\* the rows of the operation are written and the object is changed:
\* master.current_orders += 1 or -= 1, is_available recomputed from it
compute(p) ==
    /\ sessions[p].pc = "loaded"
    /\ LET s == sessions[p]
       IN IF s.op = "assign"
          THEN /\ Commit(Order_save(WorkOrder_insert(Store, s.order, s.id, TRUE),
                                    s.order, "assigned", TRUE))
               /\ sessions' = [sessions EXCEPT
                                  ![p] = update_availability(
                                            [s EXCEPT !.pc = "computed",
                                                      !.current_orders = @ + 1])]
          ELSE IF \E w \in WorkOrder_get_by_order_id(Store, s.order) :
                      work_order[w].master_id = s.id
               THEN /\ Commit(Order_save(Store, s.order, "completed", TRUE))
                    /\ sessions' = [sessions EXCEPT
                                       ![p] = update_availability(
                                                 [s EXCEPT !.pc = "computed",
                                                           !.current_orders = @ - 1])]
               ELSE /\ sessions' = [sessions EXCEPT ![p].pc = "returned"]
                    /\ UNCHANGED <<order_table, work_order, master>>
    /\ Backstage

\* the object is saved
write_back(p) ==
    /\ sessions[p].pc = "computed"
    /\ Commit(save_loaded(Store, sessions[p]))
    /\ sessions' = [sessions EXCEPT ![p].pc = "saved"]
    /\ Backstage

\* one master with n orders assigned to it (n up to the capacity) and two
\* orders waiting in status new; each process is given its operation and order
InitRace ==
    /\ \E n \in 1..Capacity :
           /\ order_table = [o \in 1..(n + 2) |->
                                [status |-> IF o <= n THEN "assigned" ELSE "new"]]
           /\ work_order = [w \in 1..n |-> [order_id |-> w, master_id |-> 1]]
           /\ master = << [current_orders |-> n, is_available |-> n < Capacity] >>
           /\ \E ops \in [Procs -> {"assign", "complete"}], done \in [Procs -> 1..n] :
                  sessions = [p \in Procs |->
                                 [pc |-> "idle", op |-> ops[p],
                                  order |-> IF ops[p] = "assign" THEN n + p ELSE done[p],
                                  id |-> IF ops[p] = "assign" THEN 0 ELSE 1,
                                  read |-> 0, current_orders |-> 0,
                                  is_available |-> TRUE]]
    /\ panel = NoPanel
    /\ store_rejects = FALSE
    /\ senders_raise = FALSE
    /\ steps = 0
    /\ last = Did("init", 0, 0, "new", FALSE, 0, "ok", NoStore, <<>>)
    /\ outbox = <<>>
    /\ client = <<>>
    /\ product = <<>>
    /\ order_item = <<>>
    /\ builder = FreshBuilder

NextRace ==
    \E p \in Procs :
        \/ load_entity(p)
        \/ compute(p)
        \/ write_back(p)

SpecRace == InitRace /\ [][NextRace]_vars

\* ------------------------------------------------------------------ claims
CreateOps == {"create_advanced_order", "create_complex_order"}

\* the builder of the step just taken created a work order for master last'.chosen
BuilderAssigned == last'.op \in CreateOps /\ last'.chosen # 0

\* the successful assign_order_to_master calls of the last handler
Assigned(l) == { i \in DOMAIN l.calls : l.calls[i].ret }

\* the masters with is_available = TRUE in store S
Available(S) == { m \in MasterIds(S) : S.master[m].is_available }

\* the work_order rows of order o in store S
RowsOf(S, o) == { w \in DOMAIN S.work_order : S.work_order[w].order_id = o }

\* C1: the stored status of an order changes only along the edges
\* new->in_progress, new->cancelled, in_progress->completed,
\* in_progress->cancelled, whatever the operation; a request for another edge
\* leaves it unchanged.
C1_StatusFollowsLegalEdges ==
    [][\A o \in DOMAIN order_table :
           order_table'[o].status # order_table[o].status
               => <<order_table[o].status, order_table'[o].status>> \in LegalEdges]_vars

\* C2: once the stored status of an order is completed or cancelled, no later
\* operation changes it.
C2_TerminalStatusIsFinal ==
    [][\A o \in DOMAIN order_table :
           order_table[o].status \in Terminal
               => order_table'[o].status = order_table[o].status]_vars

\* C3: an order that is not completed or cancelled has at most one work_order
\* row; the re-queue scan gives no second row to an order built with a master.
C3_AtMostOneActiveAssignment ==
    \A o \in DOMAIN order_table :
        order_table[o].status \notin Terminal => Cardinality(RowsOf(Store, o)) <= 1

\* C4: the stored availability flag of every master equals
\* (stored current load < 3).
C4_AvailabilityMatchesLoad ==
    \A m \in DOMAIN master :
        master[m].is_available = (master[m].current_orders < Capacity)

\* C4 witness: a build has just brought a master to the capacity and the panel
\* has not been used yet
C4_Witness ==
    /\ last.op \in CreateOps
    /\ last.chosen # 0
    /\ master[last.chosen].current_orders = Capacity
    /\ ~master[last.chosen].is_available

\* C5: the stored load of a master is never negative, also when the same order
\* is completed more than once from the master panel.
C5_LoadNeverNegative ==
    \A m \in DOMAIN master : master[m].current_orders >= 0

\* C6: no assignment, automatic or by master_id, links an order to a master
\* whose availability is false at the time of the assignment.
C6_NeverAssignsUnavailable ==
    [][/\ BuilderAssigned => master[last'.chosen].is_available
       /\ \A i \in Assigned(last') :
              last'.calls[i].pre.master[last'.calls[i].master].is_available]_vars

\* C7: every successful assignment raises the stored load of the master by
\* exactly one and stores availability as (new load < 3).
C7_AssignAddsOne ==
    [][/\ BuilderAssigned =>
              /\ master'[last'.chosen].current_orders
                     = master[last'.chosen].current_orders + 1
              /\ master'[last'.chosen].is_available
                     = (master[last'.chosen].current_orders + 1 < Capacity)
       /\ \A i \in Assigned(last') :
              LET c == last'.calls[i]
              IN /\ c.post.master[c.master].current_orders
                        = c.pre.master[c.master].current_orders + 1
                 /\ c.post.master[c.master].is_available
                        = (c.pre.master[c.master].current_orders + 1 < Capacity)]_vars

\* C7 witness: a master with load 2 was assigned an order by the re-queue scan
\* and now has load 3 and availability false
C7_Witness ==
    \E i \in Assigned(last) :
        LET c == last.calls[i]
        IN /\ c.pre.master[c.master].current_orders = 2
           /\ master[c.master].current_orders = 3
           /\ ~master[c.master].is_available

\* C8: automatic assignment takes a master whose load is minimal among the
\* masters with availability true.
C8_AutoTakesLeastLoaded ==
    [][/\ (BuilderAssigned /\ last'.master = 0) =>
              /\ last'.chosen \in Available(Store)
              /\ \A m \in Available(Store) :
                     master[last'.chosen].current_orders <= master[m].current_orders
       /\ \A i \in Assigned(last') :
              LET c == last'.calls[i]
              IN /\ c.master \in Available(c.pre)
                 /\ \A m \in Available(c.pre) :
                        c.pre.master[c.master].current_orders
                            <= c.pre.master[m].current_orders]_vars

\* C8 witness: the re-queue scan chose among two available masters of different
\* loads
C8_Witness ==
    \E i \in Assigned(last) :
        LET c == last.calls[i]
        IN \E m \in Available(c.pre) :
               c.pre.master[m].current_orders > c.pre.master[c.master].current_orders

\* C9: when assignment is requested for an order in status new and no master
\* is available, the order is stored in status new without a work_order row,
\* no load changes and the caller gets a pending outcome, not a failure.
C9_NoMasterLeavesOrderPending ==
    [][/\ ( /\ last'.op \in CreateOps
            /\ last'.assign
            /\ last'.master = 0
            /\ last'.status = "new"
            /\ Available(Store) = {} ) =>
              /\ last'.ret # "none"
              /\ Len(order_table') = Len(order_table) + 1
              /\ order_table'[Len(order_table')].status = "new"
              /\ work_order' = work_order
              /\ master' = master
       /\ \A i \in DOMAIN last'.calls :
              LET c == last'.calls[i]
              IN Available(c.pre) = {} =>
                     /\ ~c.ret
                     /\ c.post = c.pre
                     /\ c.pre.order_table[c.order].status = "new"]_vars

\* C10: a successful assignment creates a work_order row linking the order to
\* the selected master and leaves the stored status of the order in_progress;
\* assignment acts only on orders whose status is new.
C10_AssignDrivesToInProgress ==
    [][/\ BuilderAssigned =>
              /\ work_order' = Append(work_order,
                                      [order_id |-> last'.order, master_id |-> last'.chosen])
              /\ order_table'[last'.order].status = "in_progress"
       /\ \A i \in Assigned(last') :
              LET c == last'.calls[i]
              IN /\ c.post.work_order = Append(c.pre.work_order,
                                          [order_id |-> c.order, master_id |-> c.master])
                 /\ c.pre.order_table[c.order].status = "new"
                 /\ c.post.order_table[c.order].status = "in_progress"]_vars

\* the completion of the step just taken went through (the order was saved)
Completed == last'.op = "panel_complete" /\ last'.ret = "ok"

\* C11: a completion from the master panel lowers the stored load of the
\* master by exactly one relative to the value stored just before it and stores
\* availability as (new load < 3), for every completion of a panel session.
C11_CompleteSubtractsOne ==
    [][Completed =>
          /\ last'.mid.master[panel.id].current_orders
                 = master[panel.id].current_orders - 1
          /\ last'.mid.master[panel.id].is_available
                 = (master[panel.id].current_orders - 1 < Capacity)]_vars

\* C12: a completion requested for an order whose stored status is already
\* completed changes no order status, no load or availability and no
\* work_order row, and dispatches no notification.
C12_CompleteOfCompletedIsNoOp ==
    [][( /\ last'.op = "panel_complete"
         /\ last'.order \in DOMAIN order_table
         /\ order_table[last'.order].status = "completed" ) =>
          /\ order_table' = order_table
          /\ work_order' = work_order
          /\ master' = master
          /\ outbox' = <<>>]_vars

\* C13: cancelling an order in status in_progress or assigned that has a
\* work_order row lowers the stored load of the master of that row by one and
\* stores its availability as (load < 3).
C13_CancelReleasesAssignment ==
    [][( /\ last'.op = "change_order_status"
         /\ last'.ret = "true"
         /\ last'.status = "cancelled"
         /\ order_table[last'.order].status \in {"in_progress", "assigned"} ) =>
          \A w \in RowsOf(Store, last'.order) :
              LET m == work_order[w].master_id
              IN /\ master'[m].current_orders = master[m].current_orders - 1
                 /\ master'[m].is_available
                        = (master[m].current_orders - 1 < Capacity)]_vars

\* the orders the scan of the last completion read: status new, ascending id
Pending(l) == Order_get_by_status(l.mid, "new")

\* C14: after a completion the re-queue scan calls assign_order_to_master on
\* the orders with status new in ascending id order and stops at the first
\* call that succeeds: at most one pending order is assigned per completion and
\* every pending order with a smaller id than the assigned one was attempted.
C14_ScanStopsAtFirstSuccess ==
    [][Completed =>
          LET pending_orders == Pending(last')
              calls == last'.calls
          IN /\ \A i, j \in DOMAIN pending_orders :
                    i < j => pending_orders[i] < pending_orders[j]
             /\ Len(calls) <= Len(pending_orders)
             /\ \A i \in DOMAIN calls : calls[i].order = pending_orders[i]
             /\ \A i \in DOMAIN calls : calls[i].ret => i = Len(calls)
             /\ Len(calls) < Len(pending_orders) => calls[Len(calls)].ret
             /\ Cardinality(Assigned(last')) <= 1
             /\ Cardinality({ o \in DOMAIN order_table' :
                                order_table'[o].status # last'.mid.order_table[o].status })
                    <= 1]_vars

\* C14 witness: a scan over at least two pending orders assigned the first and
\* left the second untouched
C14_Witness ==
    /\ last.op = "panel_complete"
    /\ last.ret = "ok"
    /\ Len(Pending(last)) >= 2
    /\ Len(last.calls) = 1
    /\ last.calls[1].ret
    /\ order_table[Pending(last)[1]].status = "assigned"
    /\ order_table[Pending(last)[2]].status = "new"

AboutOrder(box, o) == { i \in DOMAIN box : box[i].order = o }

\* C16: an operation that changes the stored status of an order dispatches
\* exactly one notification about that order, and an operation that leaves
\* the status of an order unchanged dispatches none about it
\* (change_order_status, assign_order_to_master, panel completion).
C16_OneDispatchPerStatusChange ==
    [][\A o \in DOMAIN order_table :
           IF order_table'[o].status # order_table[o].status
           THEN Cardinality(AboutOrder(outbox', o)) = 1
           ELSE AboutOrder(outbox', o) = {}]_vars

\* the listed channels that have an adapter, in list order
RECURSIVE Supported(_)
Supported(channels) ==
    IF channels = <<>> THEN <<>>
    ELSE (IF Head(channels) \in Adapters THEN << Head(channels) >> ELSE <<>>)
             \o Supported(Tail(channels))

\* C17: in send_notification an exception of one channel's adapter does not
\* stop the later channels: every listed channel with an adapter gets exactly
\* one delivery attempt, in list order; and a delivery failure leaves the
\* status change that triggered the notification in the store.
C17_FanOutIsFireAndContinue ==
    [][/\ \A i \in DOMAIN outbox' :
              LET sent == outbox'[i]
                  supported == Supported(sent.channels)
              IN /\ Len(sent.results) = Len(supported)
                 /\ \A k \in DOMAIN supported : sent.results[k].service = supported[k]
       /\ Completed =>
              /\ outbox'[1].type = "order_ready"
              /\ outbox'[1].order = last'.order
              /\ order_table'[last'.order].status = "completed"
              /\ \A i \in Assigned(last') :
                     order_table'[last'.calls[i].order].status = "assigned"]_vars

\* C17 witness: the sms adapter raised during an order_ready notification, the
\* telegram adapter was still tried, and the order is stored as completed
C17_Witness ==
    /\ last.op = "panel_complete"
    /\ last.ret = "ok"
    /\ outbox[1].type = "order_ready"
    /\ outbox[1].results = << [service |-> "sms", status |-> "error"],
                              [service |-> "telegram", status |-> "success"] >>
    /\ order_table[last.order].status = "completed"

\* the order status write of a call of assign_order_to_master was rejected
OrderWriteRejected(c) == c.post.order_table[c.order].status # "assigned"

\* C18: when the store rejects a write, no dependent side effect is applied and
\* the caller gets a failure: assign_order_to_master whose order status write is
\* rejected neither increments the load nor returns success, and a build whose
\* order or work_order write is rejected does not increment the load.
C18_RejectedWriteHasNoSideEffect ==
    [][/\ \A i \in DOMAIN last'.calls :
              LET c == last'.calls[i]
              IN OrderWriteRejected(c) => (~c.ret /\ c.post.master = c.pre.master)
       /\ ( /\ BuilderAssigned
            /\ (order_table' = order_table \/ work_order' = work_order) ) =>
              master' = master]_vars

\* C19: no work_order row exists for an order whose stored status is new.
C19_NoAssignmentWhileNew ==
    \A w \in DOMAIN work_order :
        work_order[w].order_id \in DOMAIN order_table
            => order_table[work_order[w].order_id].status # "new"

\* C20: orders are never deleted: the set of stored order ids only grows, and
\* an order stored as completed or cancelled stays stored.
C20_OrdersAreNeverDeleted ==
    [][/\ DOMAIN order_table \subseteq DOMAIN order_table'
       /\ Len(order_table') >= Len(order_table)
       /\ \A o \in DOMAIN order_table :
              order_table[o].status \in Terminal => o \in DOMAIN order_table']_vars

\* C20 witness: orders stored as completed and as cancelled are still there
\* after a later operation on another order
C20_Witness ==
    /\ \E o \in DOMAIN order_table : order_table[o].status = "completed"
    /\ \E o \in DOMAIN order_table : order_table[o].status = "cancelled"
    /\ last.op \in CreateOps
    /\ last.order = Len(order_table)
    /\ Len(order_table) = 3

\* the results by which an operation raises on an id that does not resolve
RaisedNotFound ==
    { "ValueError: client not found", "ValueError: product not found",
      "ValueError: master not found" }

\* the results by which an operation returns that an id does not resolve
ReturnedNotFound == { "not_found", "false", "none" }

\* C21: an operation given an order, master, client or product id that does
\* not resolve returns a not-found result value and changes no stored state;
\* it does not raise (set_existing_client, add_existing_product,
\* assign_master(master_id) among others).
C21_UnresolvedIdIsReturnedNotRaised ==
    [][/\ last'.ret \notin RaisedNotFound
       /\ last'.ret \in ReturnedNotFound =>
              /\ UNCHANGED <<order_table, work_order, master>>
              /\ UNCHANGED <<client, product, order_item>>]_vars

\* the builder of the step just taken ran build
Built == last'.op = "OrderBuilder.build"

\* C26: build on a builder with no client or with no order items fails with an
\* error before anything is written: no order, order item or work_order row is
\* stored and no load or availability changes.
C26_BuildWithoutClientOrItemsWritesNothing ==
    [][(Built /\ (~builder.has_client \/ builder.items = <<>>)) =>
          /\ last'.ret \in { "ValueError: no client", "ValueError: no items" }
          /\ UNCHANGED <<order_table, order_item, work_order, master, client>>]_vars

\* C26 witness: build was refused on a builder that has a client and a master
\* but no order item
C26_Witness ==
    /\ last.op = "OrderBuilder.build"
    /\ last.ret = "ValueError: no items"
    /\ builder.has_client
    /\ builder.wo_master # 0
    /\ order_table = <<>>

\* C27: a second build on the same builder stores no additional order, order
\* item or work_order row and leaves the load of the master unchanged.
C27_SecondBuildAddsNothing ==
    [][(Built /\ last'.ret = "result" /\ builder.order_id # 0) =>
          /\ Len(order_table') = Len(order_table)
          /\ Len(order_item') = Len(order_item)
          /\ Len(work_order') = Len(work_order)
          /\ master' = master]_vars

\* C28: build stores no second client with a phone number a stored client
\* has: a builder whose client has no id reuses the stored client of that
\* phone number and inserts no client row.
C28_NoSecondClientWithSamePhone ==
    [][/\ ( /\ Built
            /\ last'.ret = "result"
            /\ builder.client_id = 0
            /\ \E c \in DOMAIN client : client[c].phone_number = builder.phone_number ) =>
              /\ client' = client
              /\ client[builder'.client_id].phone_number = builder.phone_number
       /\ \A c, d \in DOMAIN client' :
              client'[c].phone_number = client'[d].phone_number => c = d]_vars

\* C28 witness: a builder given a phone number by set_client was built with
\* the client stored before under that number
C28_Witness ==
    /\ last.op = "OrderBuilder.build"
    /\ last.ret = "result"
    /\ builder.client_via = "get_by_phone"
    /\ Len(client) = 1
    /\ client[builder.client_id].phone_number = builder.phone_number
    /\ Len(order_table) = 1

\* both processes saved a master object made from the same stored load
BothSavedSameRead ==
    /\ \A p \in Procs : sessions[p].pc = "saved"
    /\ sessions[1].id = sessions[2].id
    /\ sessions[1].read = sessions[2].read

\* the change process p made to the load it read
Change(p) == sessions[p].current_orders - sessions[p].read

\* C22: when two assignment or completion operations on the same master are
\* interleaved at the steps load / compute / write back so that both read the
\* same stored load, the final stored load reflects only one of the two
\* changes; such a lost update is reachable.
C22_InterleavingLosesAnUpdate ==
    BothSavedSameRead =>
        /\ \E p \in Procs :
               master[sessions[p].id].current_orders = sessions[p].read + Change(p)
        /\ master[sessions[1].id].current_orders
               # sessions[1].read + Change(1) + Change(2)

\* C22 witness: two assignments read load 1, both saved, and the stored load is
\* 2 with three work_order rows of orders that are not finished
C22_Witness ==
    /\ BothSavedSameRead
    /\ \A p \in Procs : sessions[p].op = "assign"
    /\ sessions[1].read = 1
    /\ master[1].current_orders = 2
    /\ Len(work_order) = 3
    /\ \A o \in DOMAIN order_table : order_table[o].status = "assigned"

\* C23: a completion from the master panel sets an order to completed only if
\* a work_order row found for that order names the master of the panel; a
\* completion that is refused changes no order, no load, no work_order row and
\* dispatches no notification.
C23_CompletesOnlyOwnOrders ==
    [][/\ Completed =>
              \E w \in RowsOf(Store, last'.order) : work_order[w].master_id = panel.id
       /\ (last'.op = "panel_complete" /\ last'.ret # "ok") =>
              /\ order_table' = order_table
              /\ work_order' = work_order
              /\ master' = master
              /\ outbox' = <<>>]_vars

\* C23 witness: the panel refused the completion of an order that is in work
\* at another master
C23_Witness ==
    /\ last.op = "panel_complete"
    /\ last.ret = "not_found"
    /\ RowsOf(Store, last.order) # {}
    /\ \A w \in RowsOf(Store, last.order) : work_order[w].master_id # panel.id
    /\ order_table[last.order].status \notin Terminal

\* the work_order rows of master m in store S whose order is not completed or
\* cancelled
ActiveRows(S, m) ==
    { w \in DOMAIN S.work_order :
        /\ S.work_order[w].master_id = m
        /\ S.order_table[S.work_order[w].order_id].status \notin Terminal }

\* C24: in every reachable state of single-threaded use the stored load of
\* every master equals the number of its work_order rows whose order is not
\* completed or cancelled.
C24_LoadCountsActiveAssignments ==
    \A m \in DOMAIN master :
        master[m].current_orders = Cardinality(ActiveRows(Store, m))

\* C25: no master ever has more than 3 work_order rows whose order is not
\* completed or cancelled, after any sequence of automatic assignments
\* (builder without master id, re-queue scan) and master-panel completions.
C25_AtMostThreeActiveAssignments ==
    \A m \in DOMAIN master : Cardinality(ActiveRows(Store, m)) <= Capacity

\* the handlers whose only access to the database is the construction of
\* JewelrySystem
Constructs(l) ==
    \/ l.op = "main"
    \/ l.op = "check_order_status_menu" /\ l.ret = "ok"

\* C29: constructing JewelrySystem adds the three sample masters only when the
\* master table is empty; once a master exists the construction, also the one
\* inside assign_order_to_master and inside the completion of the master
\* panel, leaves the set of masters and their loads as they are.
C29_SeedingIsIdempotent ==
    [][/\ Constructs(last') =>
              /\ master' = IF master = <<>>
                           THEN [i \in 1..3 |-> [current_orders |-> 0,
                                                 is_available |-> TRUE]]
                           ELSE master
              /\ order_table' = order_table
              /\ work_order' = work_order
       /\ Completed =>
              /\ Len(last'.mid.master) = Len(master)
              /\ \A m \in DOMAIN master :
                     m # panel.id => last'.mid.master[m] = master[m]
       /\ \A i \in Assigned(last') :
              LET c == last'.calls[i]
              IN /\ Len(c.post.master) = Len(c.pre.master)
                 /\ \A m \in DOMAIN c.pre.master :
                        m # c.master => c.post.master[m] = c.pre.master[m]]_vars

\* C29 witness: the program was started again on a database whose masters
\* carry orders, and after the start there are still three masters, loads kept
C29_Witness ==
    /\ last.op = "main"
    /\ Len(master) = 3
    /\ \E m \in DOMAIN master : master[m].current_orders > 0
    /\ Len(work_order) > 0

====
